---- MODULE Spec2Model ----
(***************************************************************************)
(* rstask-core: the task record codec (frontmatter.rs) and the preferences *)
(* loader (preferences.rs).                                                *)
(*                                                                         *)
(* A Rust String is a sequence of one-character strings.  The markdown     *)
(* text, the YAML header and the notes are all handled at character level, *)
(* so that line splitting, joining and trimming are computed as the code   *)
(* computes them.                                                          *)
(***************************************************************************)
EXTENDS Integers, Sequences, FiniteSets, TLC

VARIABLES
    task,       \* Option<Task>: the in-memory record held by the caller
    content,    \* Option<String>: the text of the task file
    args,       \* Option<(uuid, status, id)>: the arguments of the last
                \* task_from_markdown call
    restored,   \* Option<Result<Task>>: what task_from_markdown returned
    cycles,     \* number of save/load cycles the caller has completed
    env,        \* Option<environment of Preferences::load>
    prefs       \* Option<Preferences>: what Preferences::load returned

vars == <<task, content, args, restored, cycles, env, prefs>>

-----------------------------------------------------------------------------
(* Bounds of the model *)

MaxNotesLen == 3
MaxTailLen == 3
MaxEntries == 2

-----------------------------------------------------------------------------
(* Option and Result *)

None == <<>>
Some(x) == <<x>>
IsSome(o) == o # <<>>
Unwrap(o) == o[1]

Ok(x) == [ok |-> TRUE, val |-> x]
Err(kind, message) == [ok |-> FALSE, err |-> kind, msg |-> message]

-----------------------------------------------------------------------------
(* Characters and strings *)

NL == "\n"
CR == "\r"

RECURSIVE SeqsUpTo(_, _)
SeqsUpTo(S, n) ==
    IF n = 0 THEN {<<>>}
    ELSE LET shorter == SeqsUpTo(S, n - 1)
         IN  shorter \cup {Append(s, c) : s \in {t \in shorter : Len(t) = n - 1}, c \in S}

RECURSIVE Concat(_)
Concat(parts) ==
    IF parts = <<>> THEN <<>> ELSE Head(parts) \o Concat(Tail(parts))

StartsWith(s, p) == Len(s) >= Len(p) /\ SubSeq(s, 1, Len(p)) = p
EndsWith(s, p) == Len(s) >= Len(p) /\ SubSeq(s, Len(s) - Len(p) + 1, Len(s)) = p
DropFirst(s, n) == SubSeq(s, n + 1, Len(s))

\* str::is_empty
is_empty(s) == Len(s) = 0

\* str::ends_with('\n')
ends_with_newline(s) == Len(s) > 0 /\ s[Len(s)] = NL

\* The positions of the '\n' characters of s, in increasing order.
newline_positions(s) ==
    LET P == {i \in 1 .. Len(s) : s[i] = NL}
    IN  [k \in 1 .. Cardinality(P) |->
            CHOOSE p \in P : Cardinality({q \in P : q <= p}) = k]

\* str::split('\n'): the pieces between the '\n' characters.
split_newline(s) ==
    LET pos == newline_positions(s)
        n == Len(pos)
        from(k) == IF k = 1 THEN 1 ELSE pos[k - 1] + 1
        to(k) == IF k = n + 1 THEN Len(s) ELSE pos[k] - 1
    IN  [k \in 1 .. n + 1 |-> SubSeq(s, from(k), to(k))]

\* str::lines(): the text is split after every '\n'; a line loses its '\n'
\* and then one '\r' in front of it; a last piece without '\n' is a line as it
\* stands (a bare trailing '\r' is kept); no empty line follows a final '\n'.
strip_carriage_return(piece) ==
    IF EndsWith(piece, <<CR>>) THEN SubSeq(piece, 1, Len(piece) - 1) ELSE piece

lines(s) ==
    LET pieces == split_newline(s)
        n == Len(pieces) - 1
        terminated == [k \in 1 .. n |-> strip_carriage_return(pieces[k])]
    IN  IF pieces[n + 1] = <<>> THEN terminated
        ELSE Append(terminated, pieces[n + 1])

\* [&str]::join("\n")
RECURSIVE join(_)
join(ls) ==
    IF ls = <<>> THEN <<>>
    ELSE IF Len(ls) = 1 THEN ls[1]
    ELSE ls[1] \o <<NL>> \o join(Tail(ls))

\* A trim that removes nothing.
trim_start_nothing(s) == s

\* str::trim_start_matches('\n')
RECURSIVE trim_start_matches_newline(_)
trim_start_matches_newline(s) ==
    IF s # <<>> /\ s[1] = NL THEN trim_start_matches_newline(Tail(s)) ELSE s

\* A slice lines[from..to] (0-based, end exclusive).  Rust panics when the
\* range is out of bounds.
in_bounds(ls, from, to) == from <= to /\ to <= Len(ls)
slice(ls, from, to) == SubSeq(ls, from + 1, to)

-----------------------------------------------------------------------------
(* The YAML header: serde_yaml::to_string / from_str on TaskFrontmatter *)

\* The keys of TaskFrontmatter, in declaration order.
K_summary == <<"s", "u", "m", "m", "a", "r", "y">>
K_tags == <<"t", "a", "g", "s">>
K_project == <<"p", "r", "o", "j", "e", "c", "t">>
K_priority == <<"p", "r", "i", "o", "r", "i", "t", "y">>
K_delegatedto == <<"d", "e", "l", "e", "g", "a", "t", "e", "d", "t", "o">>
K_subtasks == <<"s", "u", "b", "t", "a", "s", "k", "s">>
K_dependencies == <<"d", "e", "p", "e", "n", "d", "e", "n", "c", "i", "e", "s">>
K_created == <<"c", "r", "e", "a", "t", "e", "d">>
K_resolved == <<"r", "e", "s", "o", "l", "v", "e", "d">>
K_due == <<"d", "u", "e">>
\* The keys of SubTask.
K_text == <<"t", "e", "x", "t">>
K_done == <<"d", "o", "n", "e">>
\* A key TaskFrontmatter does not declare.
K_uuid == <<"u", "u", "i", "d">>

Y_true == <<"t", "r", "u", "e">>
Y_false == <<"f", "a", "l", "s", "e">>

\* chrono::DateTime<Utc> values are numbered 0..8; datetime_rfc3339 writes
\* midnight of day t+1 of January 2024 and reads it back.
Timestamps == 0 .. 8
Digits == <<"0", "1", "2", "3", "4", "5", "6", "7", "8", "9">>
datetime_to_rfc3339(t) ==
    <<"2", "0", "2", "4", "-", "0", "1", "-", "0">> \o <<Digits[t + 2]>> \o <<"T", "0", "0", ":", "0", "0", ":", "0", "0", "Z">>
datetime_from_rfc3339(s) ==
    IF \E t \in Timestamps : datetime_to_rfc3339(t) = s
    THEN Ok(CHOOSE t \in Timestamps : datetime_to_rfc3339(t) = s)
    ELSE Err("Yaml", "invalid timestamp")

\* A string scalar is written plain when YAML reads the plain text back as the
\* same string, and single-quoted (with ' doubled) otherwise.
plain_allowed(s) ==
    /\ s # <<>>
    /\ s[1] \notin {"'", " ", CR, NL}
    /\ s # <<"-">>
    /\ ~StartsWith(s, <<"-", "-", "-">>)
    /\ s[Len(s)] \notin {" ", ":"}
    /\ \A i \in 1 .. Len(s) : s[i] \notin {CR, NL}
    /\ \A i \in 1 .. Len(s) - 1 : ~(s[i] = ":" /\ s[i + 1] = " ")

RECURSIVE double_quotes(_)
double_quotes(s) ==
    IF s = <<>> THEN <<>>
    ELSE IF s[1] = "'" THEN <<"'", "'">> \o double_quotes(Tail(s))
    ELSE <<s[1]>> \o double_quotes(Tail(s))

emit_scalar(s) ==
    IF plain_allowed(s) THEN s ELSE <<"'">> \o double_quotes(s) \o <<"'">>

\* The inverse for a quoted scalar: '' is one quote, a lone quote inside is
\* an error.
RECURSIVE undouble_quotes(_)
undouble_quotes(s) ==
    IF s = <<>> THEN Ok(<<>>)
    ELSE IF s[1] = "'"
         THEN IF Len(s) >= 2 /\ s[2] = "'"
              THEN LET rest == undouble_quotes(DropFirst(s, 2))
                   IN  IF rest.ok THEN Ok(<<"'">> \o rest.val) ELSE rest
              ELSE Err("Yaml", "unexpected quote")
         ELSE LET rest == undouble_quotes(Tail(s))
              IN  IF rest.ok THEN Ok(<<s[1]>> \o rest.val) ELSE rest

parse_scalar(s) ==
    IF s # <<>> /\ s[1] = "'"
    THEN IF Len(s) >= 2 /\ s[Len(s)] = "'"
         THEN undouble_quotes(SubSeq(s, 2, Len(s) - 1))
         ELSE Err("Yaml", "unterminated quoted scalar")
    ELSE IF plain_allowed(s) THEN Ok(s)
    ELSE Err("Yaml", "invalid plain scalar")

\* One error value stands for every error serde_yaml reports.
YamlError == Err("Yaml", "serde_yaml error")

\* serde_yaml::to_string(&TaskFrontmatter): one "key: value" line per field in
\* declaration order, a sequence as "key:" followed by one "- item" line per
\* element, a SubTask as "- text: .." and "  done: ..".  A field that is None
\* under skip_serializing_if = "Option::is_none" writes nothing.
key_line(key, scalar) == <<key \o <<":", " ">> \o scalar>>

RECURSIVE item_lines(_)
item_lines(items) ==
    IF items = <<>> THEN <<>>
    ELSE <<(<<"-", " ">> \o emit_scalar(Head(items)))>> \o item_lines(Tail(items))

RECURSIVE subtask_lines(_)
subtask_lines(items) ==
    IF items = <<>> THEN <<>>
    ELSE << <<"-", " ">> \o K_text \o <<":", " ">> \o emit_scalar(Head(items).text),
            <<" ", " ">> \o K_done \o <<":", " ">>
                \o (IF Head(items).done THEN Y_true ELSE Y_false) >>
         \o subtask_lines(Tail(items))

opt_string_lines(key, o) ==
    IF IsSome(o) THEN key_line(key, emit_scalar(Unwrap(o))) ELSE <<>>

opt_seq_lines(key, o) ==
    IF IsSome(o) THEN <<key \o <<":">> >> \o item_lines(Unwrap(o)) ELSE <<>>

opt_subtasks_lines(key, o) ==
    IF IsSome(o) THEN <<key \o <<":">> >> \o subtask_lines(Unwrap(o)) ELSE <<>>

opt_datetime_lines(key, o) ==
    IF IsSome(o) THEN key_line(key, datetime_to_rfc3339(Unwrap(o))) ELSE <<>>

frontmatter_lines_of(fm) ==
    key_line(K_summary, emit_scalar(fm.summary))
    \o opt_seq_lines(K_tags, fm.tags)
    \o opt_string_lines(K_project, fm.project)
    \o opt_string_lines(K_priority, fm.priority)
    \o opt_string_lines(K_delegatedto, fm.delegatedto)
    \o opt_subtasks_lines(K_subtasks, fm.subtasks)
    \o opt_seq_lines(K_dependencies, fm.dependencies)
    \o key_line(K_created, datetime_to_rfc3339(fm.created))
    \o opt_datetime_lines(K_resolved, fm.resolved)
    \o opt_datetime_lines(K_due, fm.due)

RECURSIVE terminate_lines(_)
terminate_lines(ls) ==
    IF ls = <<>> THEN <<>> ELSE Head(ls) \o <<NL>> \o terminate_lines(Tail(ls))

serde_yaml_to_string(fm) == Ok(terminate_lines(frontmatter_lines_of(fm)))

\* serde_yaml::from_str::<TaskFrontmatter>: the text is read line by line
\* into the entries of a top-level mapping, then each declared field is
\* taken from the entry of its key.
yaml_blank(line) == \A i \in 1 .. Len(line) : line[i] \in {" ", CR}

NullNode == [kind |-> "null", text |-> <<>>, items |-> <<>>]
ScalarNode(raw) == [kind |-> "scalar", text |-> raw, items |-> <<>>]
SeqNode(items) == [kind |-> "seq", text |-> <<>>, items |-> items]
ScalarItem(raw) == [kind |-> "scalar", text |-> raw, entries |-> <<>>]
MapItem(entries) == [kind |-> "map", text |-> <<>>, entries |-> entries]

first_colon(line) ==
    IF \E i \in 1 .. Len(line) : line[i] = ":"
    THEN CHOOSE i \in 1 .. Len(line) :
            line[i] = ":" /\ \A j \in 1 .. i - 1 : line[j] # ":"
    ELSE 0

\* "key:" or "key: value"
parse_mapping_line(line) ==
    LET i == first_colon(line)
        key == SubSeq(line, 1, i - 1)
        rest == DropFirst(line, i)
        bad == [ok |-> FALSE, key |-> <<>>, node |-> NullNode]
    IN  IF i <= 1 THEN bad
        ELSE IF key[1] \in {"-", " ", "'", CR}
                \/ \E j \in 1 .. Len(key) : key[j] \in {" ", CR} THEN bad
        ELSE IF rest = <<>> THEN [ok |-> TRUE, key |-> key, node |-> NullNode]
        ELSE IF rest[1] = " " /\ Len(rest) >= 2
             THEN [ok |-> TRUE, key |-> key, node |-> ScalarNode(DropFirst(rest, 1))]
        ELSE bad

replace_last(acc, e) == Append(SubSeq(acc, 1, Len(acc) - 1), e)

RECURSIVE yaml_entries(_, _, _)
yaml_entries(ls, i, acc) ==
    IF i > Len(ls) THEN Ok(acc)
    ELSE
    LET line == ls[i]
        last == acc[Len(acc)]
    IN  IF yaml_blank(line) THEN yaml_entries(ls, i + 1, acc)
        ELSE IF StartsWith(line, <<"-", " ">>)
        THEN \* an element of the sequence the last key opened
             LET body == DropFirst(line, 2)
                 kv == parse_mapping_line(body)
                 item == IF kv.ok
                         THEN MapItem(<<[key |-> kv.key, node |-> kv.node]>>)
                         ELSE ScalarItem(body)
             IN  IF acc # <<>> /\ last.node.kind \in {"null", "seq"}
                 THEN yaml_entries(ls, i + 1,
                        replace_last(acc, [key |-> last.key,
                            node |-> SeqNode(Append(last.node.items, item))]))
                 ELSE YamlError
        ELSE IF StartsWith(line, <<" ", " ">>)
        THEN \* a further key of the mapping that is the last element
             LET kv == parse_mapping_line(DropFirst(line, 2))
             IN  IF /\ acc # <<>>
                    /\ last.node.kind = "seq"
                    /\ last.node.items[Len(last.node.items)].kind = "map"
                    /\ kv.ok
                 THEN LET items == last.node.items
                          it == items[Len(items)]
                          it2 == MapItem(Append(it.entries,
                                    [key |-> kv.key, node |-> kv.node]))
                      IN  yaml_entries(ls, i + 1,
                            replace_last(acc, [key |-> last.key,
                                node |-> SeqNode(replace_last(items, it2))]))
                 ELSE YamlError
        ELSE LET kv == parse_mapping_line(line)
             IN  IF kv.ok
                 THEN yaml_entries(ls, i + 1,
                        Append(acc, [key |-> kv.key, node |-> kv.node]))
                 ELSE YamlError

has_key(entries, key) == \E i \in 1 .. Len(entries) : entries[i].key = key
duplicate_key(entries) ==
    \E i, j \in 1 .. Len(entries) : i # j /\ entries[i].key = entries[j].key
node_of(entries, key) ==
    IF has_key(entries, key)
    THEN entries[CHOOSE i \in 1 .. Len(entries) : entries[i].key = key].node
    ELSE NullNode

de_string(node) ==
    IF node.kind = "scalar"
    THEN IF parse_scalar(node.text).ok THEN parse_scalar(node.text) ELSE YamlError
    ELSE YamlError

de_bool(node) ==
    IF node.kind = "scalar" /\ node.text \in {Y_true, Y_false}
    THEN Ok(node.text = Y_true)
    ELSE YamlError

de_datetime(node) ==
    IF de_string(node).ok /\ datetime_from_rfc3339(de_string(node).val).ok
    THEN datetime_from_rfc3339(de_string(node).val)
    ELSE YamlError

de_seq_strings(node) ==
    IF /\ node.kind = "seq"
       /\ \A i \in 1 .. Len(node.items) :
            node.items[i].kind = "scalar" /\ parse_scalar(node.items[i].text).ok
    THEN Ok([i \in 1 .. Len(node.items) |-> parse_scalar(node.items[i].text).val])
    ELSE YamlError

de_subtask_ok(item) ==
    /\ item.kind = "map"
    /\ ~duplicate_key(item.entries)
    /\ has_key(item.entries, K_text)
    /\ has_key(item.entries, K_done)
    /\ de_string(node_of(item.entries, K_text)).ok
    /\ de_bool(node_of(item.entries, K_done)).ok

de_subtasks(node) ==
    IF node.kind = "seq" /\ \A i \in 1 .. Len(node.items) : de_subtask_ok(node.items[i])
    THEN Ok([i \in 1 .. Len(node.items) |->
                [text |-> de_string(node_of(node.items[i].entries, K_text)).val,
                 done |-> de_bool(node_of(node.items[i].entries, K_done)).val]])
    ELSE YamlError

\* An Option field: a missing key and a null value are both None; `value` is
\* what the field's type reads from the node of the key.
de_option(entries, key, value) ==
    IF ~has_key(entries, key) \/ node_of(entries, key).kind = "null"
    THEN Ok(None)
    ELSE IF value.ok THEN Ok(Some(value.val)) ELSE YamlError

\* A field that is not an Option must be there.
de_required(entries, key, value) ==
    IF has_key(entries, key) THEN value ELSE YamlError

\* The header record once every field has been read.
frontmatter_of(summary, tags, project, priority, delegatedto, subtasks, dependencies, created, resolved, due) ==
    IF /\ summary.ok /\ tags.ok /\ project.ok /\ priority.ok
       /\ delegatedto.ok /\ subtasks.ok /\ dependencies.ok
       /\ created.ok /\ resolved.ok /\ due.ok
    THEN Ok([summary |-> summary.val, tags |-> tags.val,
             project |-> project.val, priority |-> priority.val,
             delegatedto |-> delegatedto.val, subtasks |-> subtasks.val,
             dependencies |-> dependencies.val, created |-> created.val,
             resolved |-> resolved.val, due |-> due.val])
    ELSE YamlError

\* #[derive(Deserialize)] for TaskFrontmatter, on the entries of the mapping.
string_at(e, key) == de_string(node_of(e, key))
strings_at(e, key) == de_seq_strings(node_of(e, key))
subtasks_at(e, key) == de_subtasks(node_of(e, key))
datetime_at(e, key) == de_datetime(node_of(e, key))

deserialize_frontmatter(parsed) ==
    IF ~parsed.ok THEN YamlError
    ELSE IF duplicate_key(parsed.val) THEN YamlError
    ELSE frontmatter_of(
            de_required(parsed.val, K_summary, string_at(parsed.val, K_summary)),
            de_option(parsed.val, K_tags, strings_at(parsed.val, K_tags)),
            de_option(parsed.val, K_project, string_at(parsed.val, K_project)),
            de_option(parsed.val, K_priority, string_at(parsed.val, K_priority)),
            de_option(parsed.val, K_delegatedto, string_at(parsed.val, K_delegatedto)),
            de_option(parsed.val, K_subtasks, subtasks_at(parsed.val, K_subtasks)),
            de_option(parsed.val, K_dependencies, strings_at(parsed.val, K_dependencies)),
            de_required(parsed.val, K_created, datetime_at(parsed.val, K_created)),
            de_option(parsed.val, K_resolved, datetime_at(parsed.val, K_resolved)),
            de_option(parsed.val, K_due, datetime_at(parsed.val, K_due)))

serde_yaml_from_str(s) ==
    deserialize_frontmatter(yaml_entries(split_newline(s), 1, <<>>))

-----------------------------------------------------------------------------
(* frontmatter.rs *)

Delimiter == <<"-", "-", "-">>

\* Option<T>::unwrap_or_default for String and Vec
unwrap_or_default(o) == IF IsSome(o) THEN Unwrap(o) ELSE <<>>

\* A conversion that keeps an empty value.
always_some(x) == Some(x)

\* if x.is_empty() { None } else { Some(x.clone()) }
none_if_empty(x) == IF is_empty(x) THEN None ELSE Some(x)

TaskFrontmatter(t) ==
    [summary |-> t.summary,
     tags |-> none_if_empty(t.tags),
     project |-> none_if_empty(t.project),
     priority |-> none_if_empty(t.priority),
     delegatedto |-> none_if_empty(t.delegated_to),
     subtasks |-> none_if_empty(t.subtasks),
     dependencies |-> none_if_empty(t.dependencies),
     created |-> t.created,
     resolved |-> t.resolved,
     due |-> t.due]

\* A notes section that always appends a newline.
notes_section_always_newline(notes) ==
    IF ~is_empty(notes) THEN <<NL>> \o notes \o <<NL>> ELSE <<>>

\* The text task_to_markdown puts after the closing delimiter line.
notes_section(notes) ==
    IF ~is_empty(notes)
    THEN <<NL>> \o notes \o (IF ~ends_with_newline(notes) THEN <<NL>> ELSE <<>>)
    ELSE <<>>

\* task_to_markdown once the header has been serialized
wrap_frontmatter(yaml_frontmatter, notes) ==
    IF ~yaml_frontmatter.ok THEN yaml_frontmatter
    ELSE Ok(Delimiter \o <<NL>> \o yaml_frontmatter.val \o Delimiter \o <<NL>>
            \o notes_section(notes))

task_to_markdown(t) ==
    wrap_frontmatter(serde_yaml_to_string(TaskFrontmatter(t)), t.notes)

\* A search that finds the last delimiter line instead of the first.
closing_position_last(ls) ==
    IF \E i \in 2 .. Len(ls) : ls[i] = Delimiter
    THEN Some((CHOOSE i \in 2 .. Len(ls) :
                    ls[i] = Delimiter /\ \A j \in i + 1 .. Len(ls) : ls[j] # Delimiter) - 2)
    ELSE None

\* lines[1..].iter().position(|line| line == "---"): the index, counted from
\* line 1, of the first later line that is the delimiter.
closing_position(ls) ==
    IF \E i \in 2 .. Len(ls) : ls[i] = Delimiter
    THEN Some((CHOOSE i \in 2 .. Len(ls) :
                    ls[i] = Delimiter /\ \A j \in 2 .. i - 1 : ls[j] # Delimiter) - 2)
    ELSE None

frontmatter_lines(ls, closing_idx) == slice(ls, 1, closing_idx + 1)

\* A content start that does not skip the closing delimiter line.
content_start_on_closing(closing_idx) == closing_idx + 1

content_start(closing_idx) == closing_idx + 2

content_lines(ls, closing_idx) ==
    IF content_start(closing_idx) < Len(ls)
    THEN slice(ls, content_start(closing_idx), Len(ls))
    ELSE <<>>

notes_of(ls, closing_idx) ==
    IF content_start(closing_idx) < Len(ls)
    THEN trim_start_matches_newline(join(content_lines(ls, closing_idx)))
    ELSE <<>>

\* The ranges task_from_markdown slices `lines` with: lines[1..],
\* lines[1..closing_idx + 1] and lines[content_start..].
slices_in_bounds(ls, closing_idx) ==
    /\ in_bounds(ls, 1, Len(ls))
    /\ in_bounds(ls, 1, closing_idx + 1)
    /\ content_start(closing_idx) < Len(ls)
            => in_bounds(ls, content_start(closing_idx), Len(ls))

MissingOpening == Err("Parse", "missing frontmatter delimiter")
MissingClosing == Err("Parse", "missing closing frontmatter delimiter")

\* A Task that keeps the flags of a record read before.
construct_task_pending(fm, notes, u, s, n) ==
    [uuid |-> u, status |-> s, write_pending |-> TRUE, id |-> n,
     deleted |-> FALSE, summary |-> fm.summary, notes |-> notes,
     tags |-> unwrap_or_default(fm.tags),
     project |-> unwrap_or_default(fm.project),
     priority |-> unwrap_or_default(fm.priority),
     delegated_to |-> unwrap_or_default(fm.delegatedto),
     subtasks |-> unwrap_or_default(fm.subtasks),
     dependencies |-> unwrap_or_default(fm.dependencies),
     created |-> fm.created, resolved |-> fm.resolved, due |-> fm.due,
     filtered |-> FALSE]

\* The Task that task_from_markdown constructs.
construct_task(fm, notes, u, s, n) ==
    [uuid |-> u,
     status |-> s,
     write_pending |-> FALSE,
     id |-> n,
     deleted |-> FALSE,
     summary |-> fm.summary,
     notes |-> notes,
     tags |-> unwrap_or_default(fm.tags),
     project |-> unwrap_or_default(fm.project),
     priority |-> unwrap_or_default(fm.priority),
     delegated_to |-> unwrap_or_default(fm.delegatedto),
     subtasks |-> unwrap_or_default(fm.subtasks),
     dependencies |-> unwrap_or_default(fm.dependencies),
     created |-> fm.created,
     resolved |-> fm.resolved,
     due |-> fm.due,
     filtered |-> FALSE]

\* let frontmatter = serde_yaml::from_str(..).map_err(..)?; Ok(Task {..})
deserialize_and_construct(frontmatter, notes, u, s, n) ==
    IF ~frontmatter.ok THEN frontmatter
    ELSE Ok(construct_task(frontmatter.val, notes, u, s, n))

\* task_from_markdown once the closing delimiter has been found
extract_and_construct(ls, closing_idx, u, s, n) ==
    IF ~slices_in_bounds(ls, closing_idx)
    THEN Err("Panic", "slice index out of range")
    ELSE deserialize_and_construct(
            serde_yaml_from_str(join(frontmatter_lines(ls, closing_idx))),
            notes_of(ls, closing_idx), u, s, n)

\* An opening check that accepts any first line starting with the delimiter.
from_lines_starts_with(ls, closing, u, s, n) ==
    IF ls = <<>> \/ ~StartsWith(ls[1], Delimiter) THEN MissingOpening
    ELSE IF ~IsSome(closing) THEN MissingClosing
    ELSE extract_and_construct(ls, Unwrap(closing), u, s, n)

\* task_from_markdown once the content has been split into lines
from_lines(ls, closing, u, s, n) ==
    IF ls = <<>> \/ ls[1] # Delimiter THEN MissingOpening
    ELSE IF ~IsSome(closing) THEN MissingClosing
    ELSE extract_and_construct(ls, Unwrap(closing), u, s, n)

find_closing(ls, u, s, n) == from_lines(ls, closing_position(ls), u, s, n)

task_from_markdown(text, u, s, n) == find_closing(lines(text), u, s, n)

-----------------------------------------------------------------------------
(* The task records and texts the model starts from *)

\* The fields of Task that task_to_markdown writes into the header.
HeaderFields == {"summary", "tags", "project", "priority", "delegated_to",
                 "subtasks", "dependencies", "created", "resolved", "due"}

\* A header with every optional field empty, and one with every field set.
MinimalHeader ==
    [summary |-> <<"a">>, tags |-> <<>>, project |-> <<>>, priority |-> <<>>,
     delegated_to |-> <<>>, subtasks |-> <<>>, dependencies |-> <<>>,
     created |-> 0, resolved |-> None, due |-> None]
FullHeader ==
    [summary |-> <<"-", "-", "-">>,
     tags |-> << <<"a">>, <<"-">> >>,
     project |-> <<"a", ":", " ", "a">>,
     priority |-> <<"H">>,
     delegated_to |-> <<"'", "a">>,
     subtasks |-> << [text |-> <<"a">>, done |-> TRUE],
                     [text |-> <<>>, done |-> FALSE] >>,
     dependencies |-> << <<"a", "-", "a">> >>,
     created |-> 1, resolved |-> Some(2), due |-> Some(3)]

\* The header that takes the fields in S from FullHeader and the others from
\* MinimalHeader.
MixedHeader(S) ==
    [f \in HeaderFields |-> IF f \in S THEN FullHeader[f] ELSE MinimalHeader[f]]

\* MinimalHeader and FullHeader, each also with one field exchanged.
Headers ==
    {MixedHeader(S) : S \in {T \in SUBSET HeaderFields :
                                Cardinality(T) <= 1
                                \/ Cardinality(T) >= Cardinality(HeaderFields) - 1}}

NoteChars == {"a", "-", NL, CR}
AllNotes == SeqsUpTo(NoteChars, MaxNotesLen)
FewNotes == {<<>>, <<"a">>}

\* The fields of Task the header does not hold.
U1 == <<"u", "1">>
U2 == <<"u", "2">>
Pending == <<"p", "e", "n", "d", "i", "n", "g">>
Resolved == <<"r", "e", "s", "o", "l", "v", "e", "d">>

DefaultTransient ==
    [uuid |-> U1, status |-> Pending, id |-> 1,
     write_pending |-> FALSE, deleted |-> FALSE, filtered |-> FALSE]

Transients ==
    { DefaultTransient,
      [uuid |-> U2, status |-> Pending, id |-> 2,
       write_pending |-> FALSE, deleted |-> TRUE, filtered |-> FALSE],
      [uuid |-> U1, status |-> Resolved, id |-> 1,
       write_pending |-> TRUE, deleted |-> FALSE, filtered |-> TRUE],
      [uuid |-> U2, status |-> Resolved, id |-> 2,
       write_pending |-> TRUE, deleted |-> TRUE, filtered |-> TRUE] }

MakeTask(tr, h, notes) ==
    [uuid |-> tr.uuid, status |-> tr.status, write_pending |-> tr.write_pending,
     id |-> tr.id, deleted |-> tr.deleted,
     summary |-> h.summary, notes |-> notes, tags |-> h.tags,
     project |-> h.project, priority |-> h.priority,
     delegated_to |-> h.delegated_to, subtasks |-> h.subtasks,
     dependencies |-> h.dependencies, created |-> h.created,
     resolved |-> h.resolved, due |-> h.due, filtered |-> tr.filtered]

HeaderOf(t) == [f \in HeaderFields |-> t[f]]
TransientOf(t) ==
    [uuid |-> t.uuid, status |-> t.status, id |-> t.id,
     write_pending |-> t.write_pending, deleted |-> t.deleted,
     filtered |-> t.filtered]

\* Every note text with the two base headers, every header with a few notes.
Tasks ==
    {MakeTask(DefaultTransient, h, n) : h \in {MinimalHeader, FullHeader}, n \in AllNotes}
    \cup {MakeTask(DefaultTransient, h, n) : h \in Headers, n \in FewNotes}

\* The caller runs save/load cycles until the notes can no longer change.
MaxCycles == MaxNotesLen + 1

-----------------------------------------------------------------------------
(* The save/load cycle of a task file *)

InitCodec ==
    /\ task \in {Some(t) : t \in Tasks}
    /\ content = None
    /\ args = None
    /\ restored = None
    /\ cycles = 0
    /\ env = None
    /\ prefs = None

\* The caller writes task_to_markdown(task) to the task file.
ToMarkdown ==
    /\ IsSome(task)
    /\ content = None
    /\ task_to_markdown(Unwrap(task)).ok
    /\ content' = Some(task_to_markdown(Unwrap(task)).val)
    /\ UNCHANGED <<task, args, restored, cycles, env, prefs>>

\* The caller changes fields of the record that the file does not hold.
SetTransient(tr) ==
    /\ IsSome(task)
    /\ restored = None
    /\ TransientOf(Unwrap(task)) # tr
    /\ task' = Some(MakeTask(tr, HeaderOf(Unwrap(task)), Unwrap(task).notes))
    /\ UNCHANGED <<content, args, restored, cycles, env, prefs>>

\* The caller reads the task file with task_from_markdown.
FromMarkdown(u, s, n) ==
    /\ IsSome(content)
    /\ restored = None
    /\ args' = Some([uuid |-> u, status |-> s, id |-> n])
    /\ restored' = Some(task_from_markdown(Unwrap(content), u, s, n))
    /\ UNCHANGED <<task, content, cycles, env, prefs>>

\* The caller keeps the record it read in place of the one it wrote.
Reload ==
    /\ IsSome(task)
    /\ IsSome(restored)
    /\ Unwrap(restored).ok
    /\ cycles < MaxCycles
    /\ task' = Some(Unwrap(restored).val)
    /\ content' = None
    /\ args' = None
    /\ restored' = None
    /\ cycles' = cycles + 1
    /\ UNCHANGED <<env, prefs>>

DecodeArgs == {<<U1, Pending, 1>>, <<U2, Resolved, 2>>}

NextCodec ==
    \/ ToMarkdown
    \/ \E tr \in Transients : SetTransient(tr)
    \/ \E a \in DecodeArgs : FromMarkdown(a[1], a[2], a[3])
    \/ Reload

SpecCodec == InitCodec /\ [][NextCodec]_vars

-----------------------------------------------------------------------------
(* Reading a task file that anything may have written *)

FieldOrder == <<"summary", "tags", "project", "priority", "delegated_to",
                "subtasks", "dependencies", "created", "resolved", "due">>

\* The header lines of one field of FullHeader.
FieldLines(f) ==
    LET fm == TaskFrontmatter(MakeTask(DefaultTransient, FullHeader, <<>>))
    IN  CASE f = "summary" -> key_line(K_summary, emit_scalar(fm.summary))
          [] f = "tags" -> opt_seq_lines(K_tags, fm.tags)
          [] f = "project" -> opt_string_lines(K_project, fm.project)
          [] f = "priority" -> opt_string_lines(K_priority, fm.priority)
          [] f = "delegated_to" -> opt_string_lines(K_delegatedto, fm.delegatedto)
          [] f = "subtasks" -> opt_subtasks_lines(K_subtasks, fm.subtasks)
          [] f = "dependencies" -> opt_seq_lines(K_dependencies, fm.dependencies)
          [] f = "created" -> key_line(K_created, datetime_to_rfc3339(fm.created))
          [] f = "resolved" -> opt_datetime_lines(K_resolved, fm.resolved)
          [] f = "due" -> opt_datetime_lines(K_due, fm.due)

\* A header text holding exactly the keys of the fields in S.
HeaderText(S) ==
    terminate_lines(Concat([k \in 1 .. Len(FieldOrder) |->
        IF FieldOrder[k] \in S THEN FieldLines(FieldOrder[k]) ELSE <<>>]))

RequiredFields == {"summary", "created"}
OptionalFields == HeaderFields \ RequiredFields

KeySets ==
    {S \in SUBSET HeaderFields :
        \/ Cardinality(S) <= 1
        \/ Cardinality(S) >= Cardinality(HeaderFields) - 1
        \/ RequiredFields \subseteq S /\ Cardinality(S) <= 3}

\* A header that also holds a key TaskFrontmatter does not declare.
UnknownKeyHeader ==
    terminate_lines(key_line(K_uuid, <<"u", "9">>)) \o HeaderText(RequiredFields)

DelimiterLine == Delimiter \o <<NL>>
Openings == {<<>>, DelimiterLine, Delimiter \o <<CR, NL>>, <<"-", "-", NL>>}
Closings == {<<>>, DelimiterLine, Delimiter \o <<CR, NL>>, Delimiter}
FewBodies == {<<>>, HeaderText(RequiredFields), UnknownKeyHeader}
Tails == SeqsUpTo(NoteChars, MaxTailLen)
FewTails == {<<>>, <<NL, "a", NL, NL, "a", NL>>}

Texts ==
    {Concat(<<DelimiterLine, HeaderText(S), DelimiterLine, tail>>) :
        S \in KeySets, tail \in FewTails}
    \cup {Concat(<<o, body, c, tail>>) :
        o \in Openings, body \in FewBodies, c \in Closings, tail \in Tails}

InitDecode ==
    /\ task = None
    /\ content \in {Some(t) : t \in Texts}
    /\ args = None
    /\ restored = None
    /\ cycles = 0
    /\ env = None
    /\ prefs = None

NextDecode == \E a \in DecodeArgs : FromMarkdown(a[1], a[2], a[3])

SpecDecode == InitDecode /\ [][NextDecode]_vars

-----------------------------------------------------------------------------
(* preferences.rs *)

SyncFrequencyVariants == {"never", "after_every_modification"}
BulkCommitStrategyVariants == {"single", "per_task"}

\* impl Default for SyncFrequency / BulkCommitStrategy
SyncFrequency_default == "never"
BulkCommitStrategy_default == "single"

\* The Default a derive would give Preferences: each field's own Default.
Preferences_derived_default ==
    [sync_frequency |-> SyncFrequency_default,
     bulk_commit_strategy |-> BulkCommitStrategy_default]

\* impl Default for Preferences
Preferences_default ==
    [sync_frequency |-> "never", bulk_commit_strategy |-> "per_task"]

\* The content of a config file: a sequence of statements, each a key with a
\* value or a piece of text the config format does not accept.
Garbage == [key |-> "", value |-> ""]
ConfigKeys == {"sync_frequency", "bulk_commit_strategy", "editor"}
ConfigValues == {"never", "after_every_modification", "single", "per_task", "weekly"}
Statements == {[key |-> k, value |-> v] : k \in ConfigKeys, v \in ConfigValues}
                \cup {Garbage}
ConfigFiles == SeqsUpTo(Statements, MaxEntries)

ReadErrors == {"NotFound", "PermissionDenied", "InvalidData"}

Environments ==
    [config_dir : {None, Some("/home/user/.config")},
     read : {Ok(c) : c \in ConfigFiles} \cup {Err("Io", e) : e \in ReadErrors}]

\* Preferences::config_path
config_path(e) ==
    IF IsSome(e.config_dir)
    THEN Some(<<Unwrap(e.config_dir), "rstask", "config.styx">>)
    ELSE None

values_of(doc, key) == {i \in 1 .. Len(doc) : doc[i].key = key}

\* One field under #[serde(default)]: the value of its key, the field type's
\* Default when the key is missing.
de_field(doc, key, variants, default) ==
    IF values_of(doc, key) = {} THEN Ok(default)
    ELSE IF Cardinality(values_of(doc, key)) > 1 THEN Err("Styx", "duplicate field")
    ELSE LET v == doc[CHOOSE i \in values_of(doc, key) : TRUE].value
         IN  IF v \in variants THEN Ok(v) ELSE Err("Styx", "unknown variant")

\* serde_styx::from_str::<Preferences>
serde_styx_from_str(doc) ==
    LET sync == de_field(doc, "sync_frequency", SyncFrequencyVariants,
                         SyncFrequency_default)
        bulk == de_field(doc, "bulk_commit_strategy", BulkCommitStrategyVariants,
                         BulkCommitStrategy_default)
    IN  IF \E i \in 1 .. Len(doc) : doc[i] = Garbage THEN Err("Styx", "syntax error")
        ELSE IF ~sync.ok THEN sync
        ELSE IF ~bulk.ok THEN bulk
        ELSE Ok([sync_frequency |-> sync.val, bulk_commit_strategy |-> bulk.val])

\* Result::unwrap_or_default
result_unwrap_or_default(r) == IF r.ok THEN r.val ELSE Preferences_default

\* Preferences::load
load(e) ==
    IF ~IsSome(config_path(e)) THEN Preferences_default
    ELSE IF ~e.read.ok THEN Preferences_default
    ELSE result_unwrap_or_default(serde_styx_from_str(e.read.val))

InitPrefs ==
    /\ task = None
    /\ content = None
    /\ args = None
    /\ restored = None
    /\ cycles = 0
    /\ env \in {Some(e) : e \in Environments}
    /\ prefs = None

Load ==
    /\ IsSome(env)
    /\ prefs = None
    /\ prefs' = Some(load(Unwrap(env)))
    /\ UNCHANGED <<task, content, args, restored, cycles, env>>

NextPrefs == Load

SpecPrefs == InitPrefs /\ [][NextPrefs]_vars

-----------------------------------------------------------------------------
(* The whole library *)

Init == InitCodec \/ InitDecode \/ InitPrefs

Next == NextCodec \/ NextPrefs

Spec == Init /\ [][Next]_vars

\* A task file is either written by this program or found on disk.
InitFiles == InitCodec \/ InitDecode

SpecFiles == InitFiles /\ [][NextCodec]_vars

-----------------------------------------------------------------------------
(* Character-level notions the properties are stated with *)

\* The text has a delimiter line starting at position p: "---" at the start
\* of a line, followed by the end of the text, "\n" or "\r\n".
DelimiterLineAt(text, p) ==
    /\ p + 2 <= Len(text)
    /\ SubSeq(text, p, p + 2) = Delimiter
    /\ p = 1 \/ text[p - 1] = NL
    /\ \/ p + 3 > Len(text)
       \/ text[p + 3] = NL
       \/ p + 4 <= Len(text) /\ text[p + 3] = CR /\ text[p + 4] = NL

HasOpening(text) == DelimiterLineAt(text, 1)
HasClosing(text) == \E p \in 2 .. Len(text) : DelimiterLineAt(text, p)

\* Where the closing delimiter line starts: the first delimiter line after
\* the first line.
ClosingStart(text) ==
    CHOOSE p \in 2 .. Len(text) :
        DelimiterLineAt(text, p) /\ \A q \in 2 .. p - 1 : ~DelimiterLineAt(text, q)

\* The text after the line that starts at p.
AfterLine(text, p) ==
    IF p + 3 > Len(text) THEN <<>>
    ELSE IF text[p + 3] = NL THEN DropFirst(text, p + 3)
    ELSE DropFirst(text, p + 4)

AfterClosing(text) == AfterLine(text, ClosingStart(text))

\* The text with the characters at the positions in Drop left out.
Without(text, Drop) ==
    LET marked == [i \in 1 .. Len(text) |-> <<text[i], i \in Drop>>]
        keep(m) == ~m[2]
        kept == SelectSeq(marked, keep)
    IN  [i \in 1 .. Len(kept) |-> kept[i][1]]

\* The text without its final line terminator and with every "\r\n" read as
\* "\n".
LineEndingsNormalized(text) ==
    Without(text,
        {i \in 1 .. Len(text) :
            \/ i = Len(text) /\ text[i] = NL
            \/ i < Len(text) /\ text[i] = CR /\ text[i + 1] = NL})

\* The text without its leading newline characters.
FirstNonNewline(text) ==
    IF \E i \in 1 .. Len(text) : text[i] # NL
    THEN CHOOSE i \in 1 .. Len(text) : text[i] # NL /\ \A j \in 1 .. i - 1 : text[j] = NL
    ELSE Len(text) + 1
WithoutLeadingNewlines(text) == DropFirst(text, FirstNonNewline(text) - 1)

\* How many newline characters the text ends with.
TrailingNewlines(text) ==
    Cardinality({i \in 1 .. Len(text) : \A j \in i .. Len(text) : text[j] = NL})

\* What task_to_markdown writes before the notes: the header between its
\* delimiter lines.
HeaderPart(t) ==
    DelimiterLine \o serde_yaml_to_string(TaskFrontmatter(t)).val \o DelimiterLine

\* The lines between the opening delimiter and the first later delimiter, and
\* the lines after that one.
HeaderLines(ls) ==
    LET k == CHOOSE i \in 2 .. Len(ls) :
                ls[i] = Delimiter /\ \A j \in 2 .. i - 1 : ls[j] # Delimiter
    IN  SubSeq(ls, 2, k - 1)
NoteLines(ls) == SubSeq(ls, Len(HeaderLines(ls)) + 3, Len(ls))

\* The config file is found, read and decoded.
Decodes(e) ==
    IsSome(e.config_dir) /\ e.read.ok /\ serde_styx_from_str(e.read.val).ok

PersistedFields == HeaderFields \cup {"notes"}

TheTask == Unwrap(task)
TheContent == Unwrap(content)
TheResult == Unwrap(restored)
TheArgs == Unwrap(args)

-----------------------------------------------------------------------------
(* Properties *)

\* C1: round trip.  Whenever a record has been written with task_to_markdown
\* and the text read back with task_from_markdown under the record's own
\* uuid, status and id, the read succeeds and the
\* record read has the summary, notes, tags, project, priority, delegated_to,
\* subtasks, dependencies, created, resolved and due of the record written.
C1_RoundTrip ==
    (/\ IsSome(task) /\ IsSome(restored)
     /\ TheArgs = [uuid |-> TheTask.uuid, status |-> TheTask.status,
                   id |-> TheTask.id]) =>
        /\ TheResult.ok
        /\ \A f \in PersistedFields : TheResult.val[f] = TheTask[f]

\* C3 as stated: with empty notes the output ends with the closing delimiter
\* line and nothing after it; with non-empty notes the output is the header,
\* the closing delimiter line, one blank line, the notes verbatim, a newline
\* exactly when the notes do not end with one, and the output ends with
\* exactly one trailing newline character.
C3_ExactlyOneTrailingNewline ==
    (IsSome(task) /\ IsSome(content)) =>
        LET notes == TheTask.notes
        IN  IF notes = <<>>
            THEN TheContent = HeaderPart(TheTask)
            ELSE /\ TheContent = HeaderPart(TheTask) \o <<NL>> \o notes
                        \o (IF notes[Len(notes)] # NL THEN <<NL>> ELSE <<>>)
                 /\ TrailingNewlines(TheContent) = 1

\* C3 as amended: the same, except that the output ends with at least one
\* newline character: the trailing newlines of the notes are all kept, and one
\* is added only when the notes have none.
C3_NotesBoundaryOnEncode ==
    (IsSome(task) /\ IsSome(content)) =>
        LET notes == TheTask.notes
        IN  IF notes = <<>>
            THEN TheContent = HeaderPart(TheTask)
            ELSE /\ TheContent = HeaderPart(TheTask) \o <<NL>> \o notes
                        \o (IF notes[Len(notes)] # NL THEN <<NL>> ELSE <<>>)
                 /\ TrailingNewlines(TheContent) >= 1
                 /\ TrailingNewlines(notes) < Len(notes) =>
                        TrailingNewlines(TheContent)
                            = (IF TrailingNewlines(notes) = 0 THEN 1
                               ELSE TrailingNewlines(notes))

\* C3 witness: notes that end with two newlines have been written.
C3_Witness ==
    /\ IsSome(task) /\ IsSome(content)
    /\ Len(TheTask.notes) >= 3
    /\ TrailingNewlines(TheTask.notes) = 2
    /\ TrailingNewlines(TheContent) = 2

\* C10: in every save/load cycle the read succeeds, every header field is
\* unchanged and the notes do not get longer; after as many cycles as the
\* notes had characters the record is a fixed point of the cycle.
C10_Convergence ==
    (IsSome(task) /\ IsSome(restored)) =>
        /\ TheResult.ok
        /\ \A f \in HeaderFields : TheResult.val[f] = TheTask[f]
        /\ Len(TheResult.val.notes) <= Len(TheTask.notes)
        /\ Len(TheResult.val.notes) = Len(TheTask.notes)
                => TheResult.val.notes = TheTask.notes
        /\ cycles >= MaxNotesLen => TheResult.val.notes = TheTask.notes

\* C10 witness: a second cycle that shortens the notes again.
C10_Witness ==
    /\ IsSome(task) /\ IsSome(restored)
    /\ cycles = 1
    /\ TheResult.ok
    /\ Len(TheResult.val.notes) < Len(TheTask.notes)
    /\ TheResult.val.notes # <<>>

\* C2 as stated: for every accepted text the notes are the text after the
\* closing delimiter line without its leading newline characters, every other
\* character kept, trailing newlines included.
C2_TrailingNewlinesKept ==
    (IsSome(restored) /\ TheResult.ok) =>
        TheResult.val.notes = WithoutLeadingNewlines(AfterClosing(TheContent))

\* C2 as amended: for every accepted text the notes are the text after the
\* closing delimiter line, without its final line terminator, with every
\* "\r\n" read as "\n", and then without its leading newline characters;
\* nothing after the closing delimiter line gives empty notes.
C2_NotesBoundaryOnDecode ==
    (IsSome(restored) /\ TheResult.ok) =>
        /\ HasOpening(TheContent) /\ HasClosing(TheContent)
        /\ TheResult.val.notes =
            WithoutLeadingNewlines(LineEndingsNormalized(AfterClosing(TheContent)))
        /\ AfterClosing(TheContent) = <<>> => TheResult.val.notes = <<>>

\* C2 witness: an accepted text with blank lines before the notes, one inside
\* them and a newline at their end.
C2_Witness ==
    /\ IsSome(restored) /\ TheResult.ok
    /\ AfterClosing(TheContent) = <<NL, "a", NL, NL, "a", NL>>
    /\ TheResult.val.notes = <<"a", NL, NL, "a">>

\* C4: a text that is empty or whose first line is not exactly the delimiter
\* is refused for its missing opening delimiter, and a text whose first line
\* is the delimiter and that has no later delimiter line is refused for its
\* missing closing delimiter, whatever the header and the arguments are.
C4_DelimiterRequirement ==
    IsSome(restored) =>
        /\ ~HasOpening(TheContent) => TheResult = MissingOpening
        /\ (HasOpening(TheContent) /\ ~HasClosing(TheContent))
                => TheResult = MissingClosing
        /\ (HasOpening(TheContent) /\ HasClosing(TheContent))
                => TheResult \notin {MissingOpening, MissingClosing}

\* C4 witness: a text with an opening delimiter, a complete header and no
\* closing delimiter has been refused.
C4_Witness ==
    /\ IsSome(restored)
    /\ TheResult = MissingClosing
    /\ Len(lines(TheContent)) >= 3
    /\ StartsWith(lines(TheContent)[2], K_summary)

\* C9: the lines of a text with both delimiters are the opening delimiter,
\* the header lines (none of them a delimiter), the closing delimiter and the
\* note lines, in this order; the result is what the header parser makes of
\* exactly the header lines, with notes built from exactly the note lines;
\* no slice is out of bounds.
C9_Partition ==
    (IsSome(restored) /\ HasOpening(TheContent) /\ HasClosing(TheContent)) =>
        LET ls == lines(TheContent)
            H == HeaderLines(ls)
            N == NoteLines(ls)
        IN  /\ ls = <<Delimiter>> \o H \o <<Delimiter>> \o N
            /\ \A i \in 1 .. Len(H) : H[i] # Delimiter
            /\ TheResult.ok \/ TheResult.err = "Yaml"
            /\ TheResult.ok = serde_yaml_from_str(join(H)).ok
            /\ TheResult.ok =>
                /\ TheResult.val.notes = WithoutLeadingNewlines(join(N))
                /\ TheResult.val.summary = serde_yaml_from_str(join(H)).val.summary

\* C9 witness: an accepted text whose notes hold a further delimiter line.
C9_Witness ==
    /\ IsSome(restored) /\ TheResult.ok
    /\ \E i \in 1 .. Len(NoteLines(lines(TheContent))) :
            NoteLines(lines(TheContent))[i] = Delimiter
    /\ \E i \in 1 .. Len(TheResult.val.notes) - 2 :
            SubSeq(TheResult.val.notes, i, i + 2) = Delimiter

\* The key of a header field, and whether a line of the header starts it.
KeyOf(f) ==
    CASE f = "summary" -> K_summary
      [] f = "tags" -> K_tags
      [] f = "project" -> K_project
      [] f = "priority" -> K_priority
      [] f = "delegated_to" -> K_delegatedto
      [] f = "subtasks" -> K_subtasks
      [] f = "dependencies" -> K_dependencies
      [] f = "created" -> K_created
      [] f = "resolved" -> K_resolved
      [] f = "due" -> K_due
HasKey(H, f) == \E i \in 1 .. Len(H) : StartsWith(H[i], KeyOf(f) \o <<":">>)

\* A line that gives a key no value or an empty one: "key:" with no element
\* line after it, or "key: " followed by '', "", ~, null, [] or {}.
EmptyMarkers ==
    {<<"'", "'">>, <<"\"", "\"">>, <<"~">>, <<"n", "u", "l", "l">>,
     <<"[", "]">>, <<"{", "}">>}
IsEmptyMarker(H, i, f) ==
    \/ /\ H[i] = KeyOf(f) \o <<":">>
       /\ i = Len(H) \/ ~StartsWith(H[i + 1], <<"-", " ">>)
    \/ \E m \in EmptyMarkers : H[i] = KeyOf(f) \o <<":", " ">> \o m

\* A field's empty value: the empty string or sequence, or no timestamp.
IsEmptyValue(v) == v = <<>>

\* C5: a header written by task_to_markdown holds the key of an optional field
\* exactly when the field is not empty, never with an empty marker, and always
\* holds summary and created; reading a well-formed header succeeds exactly
\* when it holds summary and created, and gives the empty value for every
\* optional key it lacks.
C5_OmissionSymmetry ==
    /\ (IsSome(task) /\ IsSome(content)) =>
        LET H == HeaderLines(lines(TheContent))
        IN  /\ \A f \in OptionalFields :
                /\ HasKey(H, f) <=> ~IsEmptyValue(TheTask[f])
                /\ \A i \in 1 .. Len(H) : ~IsEmptyMarker(H, i, f)
            /\ \A f \in RequiredFields : HasKey(H, f)
    /\ (IsSome(restored) /\ HasOpening(TheContent) /\ HasClosing(TheContent)) =>
        LET H == HeaderLines(lines(TheContent))
            parsed == yaml_entries(H, 1, <<>>)
        IN  (parsed.ok /\ ~duplicate_key(parsed.val)) =>
                /\ TheResult.ok <=> \A f \in RequiredFields : HasKey(H, f)
                /\ TheResult.ok =>
                    \A f \in OptionalFields :
                        ~HasKey(H, f) => IsEmptyValue(TheResult.val[f])

\* C5 witness: a text found on disk whose header holds summary, created and
\* project only has been read, and only the project is not empty.
C5_Witness ==
    /\ task = None /\ IsSome(restored) /\ TheResult.ok
    /\ TheResult.val.project # <<>>
    /\ \A f \in OptionalFields \ {"project"} :
            /\ ~HasKey(HeaderLines(lines(TheContent)), f)
            /\ IsEmptyValue(TheResult.val[f])

\* C8: the text written for a record stays the text task_to_markdown gives
\* for it however uuid, status, id, write_pending, deleted and filtered are
\* changed, and a record read has the uuid, status and id that were passed
\* and deleted, write_pending and filtered all false.
C8_TransientFields ==
    /\ (IsSome(task) /\ IsSome(content)) =>
            TheContent = task_to_markdown(TheTask).val
    /\ (IsSome(restored) /\ TheResult.ok) =>
            TransientOf(TheResult.val) =
                [uuid |-> TheArgs.uuid, status |-> TheArgs.status,
                 id |-> TheArgs.id, write_pending |-> FALSE,
                 deleted |-> FALSE, filtered |-> FALSE]

\* C8 witness: a record whose six transient fields were all changed after it
\* was written has been read back under the uuid, status and id it had when
\* it was written, with the three flags false.
C8_Witness ==
    /\ IsSome(task) /\ IsSome(content) /\ IsSome(restored) /\ TheResult.ok
    /\ TransientOf(TheTask) =
            [uuid |-> U2, status |-> Resolved, id |-> 2,
             write_pending |-> TRUE, deleted |-> TRUE, filtered |-> TRUE]
    /\ TheArgs = [uuid |-> U1, status |-> Pending, id |-> 1]
    /\ TransientOf(TheResult.val) = DefaultTransient

\* C6 as stated: when the config file is read and decodes, a key it omits
\* gets the value it has when the file is absent (never, per_task), and a key
\* it holds gets the value it holds.
C6_AbsentFieldDefault ==
    (IsSome(prefs) /\ Decodes(Unwrap(env))) =>
        LET doc == Unwrap(env).read.val
            absent == [sync_frequency |-> "never", bulk_commit_strategy |-> "per_task"]
        IN  \A k \in {"sync_frequency", "bulk_commit_strategy"} :
                IF values_of(doc, k) = {}
                THEN Unwrap(prefs)[k] = absent[k]
                ELSE \E i \in values_of(doc, k) : Unwrap(prefs)[k] = doc[i].value

\* C7: Preferences::load always returns a Preferences value, and returns
\* (never, per_task) when the config directory is unknown, when the file
\* cannot be read and when its content does not decode.
C7_PreferencesFallback ==
    IsSome(prefs) =>
        /\ Unwrap(prefs) \in [sync_frequency : SyncFrequencyVariants,
                              bulk_commit_strategy : BulkCommitStrategyVariants]
        /\ ~Decodes(Unwrap(env)) =>
                Unwrap(prefs) = [sync_frequency |-> "never",
                                 bulk_commit_strategy |-> "per_task"]

\* C7 witness: a file whose first statement sets bulk_commit_strategy to
\* single and whose second statement does not decode has been loaded.
C7_Witness ==
    /\ IsSome(prefs)
    /\ IsSome(Unwrap(env).config_dir) /\ Unwrap(env).read.ok
    /\ Len(Unwrap(env).read.val) = 2
    /\ Unwrap(env).read.val[1] = [key |-> "bulk_commit_strategy", value |-> "single"]
    /\ Unwrap(env).read.val[2] = Garbage
    /\ Unwrap(prefs).bulk_commit_strategy = "per_task"

====
